---- MODULE Spec2Model ----
(***************************************************************************)
(* A model of beancount_n26.N26Importer (src/beancount_n26/__init__.py):   *)
(* the language schema table, the header matcher, the constructor with its *)
(* payee rules, and the three file operations identify, file_date and      *)
(* extract, each run step by step over a file.                             *)
(*                                                                         *)
(* Text is modelled as a sequence of Unicode code points, so that split,   *)
(* strip, the date and decimal parsers and the case-insensitive prefix     *)
(* match are computed on characters as the code computes them.             *)
(***************************************************************************)
EXTENDS Integers, Sequences, FiniteSets, TLC

VARIABLES
  constructed,       \* "no" | "ok" | "failed": outcome of N26Importer.__init__
  ctor_args,         \* the (language, account_patterns) the constructor was called with
  language,          \* self.language
  payee_patterns,    \* self.payee_patterns: a set of PayeePattern(regex, account)
  iter_order,        \* the order in which this process iterates self.payee_patterns
  op,                \* the public method being executed, "none" between calls
  pc,                \* position inside the method
  file,              \* the file_ argument: what is on disk under file_.name
  line,              \* identify's local `line` (also is_valid_header's argument)
  open_fds,          \* number of streams currently open
  n_opened,          \* number of streams opened by the current call
  exc,               \* the exception in flight inside a with block, "none" if none
  identified,        \* the value identify returned to its caller
  pos,               \* number of data rows the csv reader has yielded
  date,              \* file_date's local `date`
  entries,           \* extract's local `entries`
  result             \* how the call ended: returned value or raised exception

importer_vars == <<constructed, ctor_args, language, payee_patterns, iter_order>>
call_vars == <<op, pc, file, line, open_fds, n_opened, exc, identified, pos, date, entries, result>>
vars == <<constructed, ctor_args, language, payee_patterns, iter_order,
          op, pc, file, line, open_fds, n_opened, exc, identified, pos, date, entries, result>>

----------------------------------------------------------------------------
\* Characters the code names literally.
COMMA == 44        \* ','
QUOTE == 34        \* '"'
CARET == 94        \* '^'
HYPHEN == 45       \* '-'
DOT == 46          \* '.'
PLUS == 43         \* '+'
DIGIT0 == 48       \* '0'
DIGIT9 == 57       \* '9'
UPPER_A == 65      \* 'A'
UPPER_Z == 90      \* 'Z'
CASE_OFFSET == 32  \* ord('a') - ord('A')
\* str.strip() without arguments removes whitespace: space, \t, \n, \v, \f, \r.
Whitespace == {32, 9, 10, 11, 12, 13}
Newline == {10, 13}
None == "None"          \* the value None where a string may stand

----------------------------------------------------------------------------
\* The language schema table.

\* HEADER_FIELDS['en']: (key, label, optional) in declaration order; labels are
\* the Unicode code points of the label text given in the comment.
Fields_en ==
  << [key |-> "date", optional |-> FALSE,   \* 'Date'
      label |-> <<68, 97, 116, 101>>],
     [key |-> "payee", optional |-> FALSE,   \* 'Payee'
      label |-> <<80, 97, 121, 101, 101>>],
     [key |-> "account_number", optional |-> FALSE,   \* 'Account number'
      label |-> <<65, 99, 99, 111, 117, 110, 116, 32, 110, 117, 109, 98, 101, 114>>],
     [key |-> "transaction_type", optional |-> FALSE,   \* 'Transaction type'
      label |-> <<84, 114, 97, 110, 115, 97, 99, 116, 105, 111, 110, 32, 116, 121, 112, 101>>],
     [key |-> "payment_reference", optional |-> FALSE,   \* 'Payment reference'
      label |-> <<80, 97, 121, 109, 101, 110, 116, 32, 114, 101, 102, 101, 114, 101, 110, 99, 101>>],
     [key |-> "category", optional |-> TRUE,   \* 'Category'
      label |-> <<67, 97, 116, 101, 103, 111, 114, 121>>],
     [key |-> "amount_eur", optional |-> FALSE,   \* 'Amount (EUR)'
      label |-> <<65, 109, 111, 117, 110, 116, 32, 40, 69, 85, 82, 41>>],
     [key |-> "amount_foreign_currency", optional |-> FALSE,   \* 'Amount (Foreign Currency)'
      label |-> <<65, 109, 111, 117, 110, 116, 32, 40, 70, 111, 114, 101, 105, 103, 110, 32, 67, 117, 114, 114, 101, 110, 99, 121, 41>>],
     [key |-> "type_foreign_currency", optional |-> FALSE,   \* 'Type Foreign Currency'
      label |-> <<84, 121, 112, 101, 32, 70, 111, 114, 101, 105, 103, 110, 32, 67, 117, 114, 114, 101, 110, 99, 121>>],
     [key |-> "exchange_rate", optional |-> FALSE,   \* 'Exchange Rate'
      label |-> <<69, 120, 99, 104, 97, 110, 103, 101, 32, 82, 97, 116, 101>>] >>

\* HEADER_FIELDS['de']: (key, label, optional) in declaration order; labels are
\* the Unicode code points of the label text given in the comment.
Fields_de ==
  << [key |-> "date", optional |-> FALSE,   \* 'Datum'
      label |-> <<68, 97, 116, 117, 109>>],
     [key |-> "payee", optional |-> FALSE,   \* 'Empf\xe4nger'
      label |-> <<69, 109, 112, 102, 228, 110, 103, 101, 114>>],
     [key |-> "account_number", optional |-> FALSE,   \* 'Kontonummer'
      label |-> <<75, 111, 110, 116, 111, 110, 117, 109, 109, 101, 114>>],
     [key |-> "transaction_type", optional |-> FALSE,   \* 'Transaktionstyp'
      label |-> <<84, 114, 97, 110, 115, 97, 107, 116, 105, 111, 110, 115, 116, 121, 112>>],
     [key |-> "payment_reference", optional |-> FALSE,   \* 'Verwendungszweck'
      label |-> <<86, 101, 114, 119, 101, 110, 100, 117, 110, 103, 115, 122, 119, 101, 99, 107>>],
     [key |-> "category", optional |-> TRUE,   \* 'Kategorie'
      label |-> <<75, 97, 116, 101, 103, 111, 114, 105, 101>>],
     [key |-> "amount_eur", optional |-> FALSE,   \* 'Betrag (EUR)'
      label |-> <<66, 101, 116, 114, 97, 103, 32, 40, 69, 85, 82, 41>>],
     [key |-> "amount_foreign_currency", optional |-> FALSE,   \* 'Betrag (Fremdw\xe4hrung)'
      label |-> <<66, 101, 116, 114, 97, 103, 32, 40, 70, 114, 101, 109, 100, 119, 228, 104, 114, 117, 110, 103, 41>>],
     [key |-> "type_foreign_currency", optional |-> FALSE,   \* 'Fremdw\xe4hrung'
      label |-> <<70, 114, 101, 109, 100, 119, 228, 104, 114, 117, 110, 103>>],
     [key |-> "exchange_rate", optional |-> FALSE,   \* 'Wechselkurs'
      label |-> <<87, 101, 99, 104, 115, 101, 108, 107, 117, 114, 115>>] >>

\* HEADER_FIELDS['fr']: (key, label, optional) in declaration order; labels are
\* the Unicode code points of the label text given in the comment.
Fields_fr ==
  << [key |-> "date", optional |-> FALSE,   \* 'Date'
      label |-> <<68, 97, 116, 101>>],
     [key |-> "payee", optional |-> FALSE,   \* 'B\xe9n\xe9ficiaire'
      label |-> <<66, 233, 110, 233, 102, 105, 99, 105, 97, 105, 114, 101>>],
     [key |-> "account_number", optional |-> FALSE,   \* 'Num\xe9ro de compte'
      label |-> <<78, 117, 109, 233, 114, 111, 32, 100, 101, 32, 99, 111, 109, 112, 116, 101>>],
     [key |-> "transaction_type", optional |-> FALSE,   \* 'Type de transaction'
      label |-> <<84, 121, 112, 101, 32, 100, 101, 32, 116, 114, 97, 110, 115, 97, 99, 116, 105, 111, 110>>],
     [key |-> "payment_reference", optional |-> FALSE,   \* 'R\xe9f\xe9rence de paiement'
      label |-> <<82, 233, 102, 233, 114, 101, 110, 99, 101, 32, 100, 101, 32, 112, 97, 105, 101, 109, 101, 110, 116>>],
     [key |-> "category", optional |-> TRUE,   \* 'Cat\xe9gorie'
      label |-> <<67, 97, 116, 233, 103, 111, 114, 105, 101>>],
     [key |-> "amount_eur", optional |-> FALSE,   \* 'Montant (EUR)'
      label |-> <<77, 111, 110, 116, 97, 110, 116, 32, 40, 69, 85, 82, 41>>],
     [key |-> "amount_foreign_currency", optional |-> FALSE,   \* 'Montant (Devise \xe9trang\xe8re)'
      label |-> <<77, 111, 110, 116, 97, 110, 116, 32, 40, 68, 101, 118, 105, 115, 101, 32, 233, 116, 114, 97, 110, 103, 232, 114, 101, 41>>],
     [key |-> "type_foreign_currency", optional |-> FALSE,   \* 'S\xe9lectionnez la devise \xe9trang\xe8re'
      label |-> <<83, 233, 108, 101, 99, 116, 105, 111, 110, 110, 101, 122, 32, 108, 97, 32, 100, 101, 118, 105, 115, 101, 32, 233, 116, 114, 97, 110, 103, 232, 114, 101>>],
     [key |-> "exchange_rate", optional |-> FALSE,   \* 'Taux de conversion'
      label |-> <<84, 97, 117, 120, 32, 100, 101, 32, 99, 111, 110, 118, 101, 114, 115, 105, 111, 110>>] >>

HEADER_FIELDS ==
  [en |-> Fields_en, de |-> Fields_de, fr |-> Fields_fr]

Languages == DOMAIN HEADER_FIELDS

is_language_supported(lang) == lang \in DOMAIN HEADER_FIELDS

\* An OrderedDict is a sequence of (key, value) pairs in insertion order.
translation_strings_for(lang) ==
  [i \in 1..Len(HEADER_FIELDS[lang]) |->
     [key |-> HEADER_FIELDS[lang][i].key, label |-> HEADER_FIELDS[lang][i].label]]

KeyIsOptional(lang, k) ==
  \E i \in 1..Len(HEADER_FIELDS[lang]) :
     HEADER_FIELDS[lang][i].key = k /\ HEADER_FIELDS[lang][i].optional

Values(headers) == [i \in 1..Len(headers) |-> headers[i].label]

\* header_values_for with the removal of the optional keys lost.
header_values_keep_optional(lang, include_optional) ==
  Values(translation_strings_for(lang))

header_values_for(lang, include_optional) ==
  LET headers == translation_strings_for(lang)
      kept(h) == ~KeyIsOptional(lang, h.key)
  IN  IF ~include_optional
        THEN Values(SelectSeq(headers, kept))
        ELSE Values(headers)

\* self._translate(key): the label under `key`, a KeyError if there is none.
translate(lang, key) ==
  LET ts == translation_strings_for(lang)
  IN  IF \E i \in 1..Len(ts) : ts[i].key = key
        THEN ts[CHOOSE i \in 1..Len(ts) : ts[i].key = key].label
        ELSE "KeyError"

----------------------------------------------------------------------------
\* str.split(sep) and str.strip(chars) on code point sequences.

RECURSIVE split(_, _)
split(s, sep) ==
  IF \E i \in 1..Len(s) : s[i] = sep
    THEN LET i == CHOOSE i \in 1..Len(s) : s[i] = sep /\ \A j \in 1..(i-1) : s[j] # sep
         IN  <<SubSeq(s, 1, i-1)>> \o split(SubSeq(s, i+1, Len(s)), sep)
    ELSE <<s>>

RECURSIVE lstrip(_, _)
lstrip(s, chars) ==
  IF s # <<>> /\ Head(s) \in chars THEN lstrip(Tail(s), chars) ELSE s

RECURSIVE rstrip(_, _)
rstrip(s, chars) ==
  IF s # <<>> /\ s[Len(s)] \in chars THEN rstrip(SubSeq(s, 1, Len(s)-1), chars) ELSE s

strip(s, chars) == rstrip(lstrip(s, chars), chars)

Min(a, b) == IF a < b THEN a ELSE b

\* The comparison loop answering at the first pair that agrees.
ZipAnyEqual(expected_values, actual_values) ==
  \E i \in 1..Min(Len(expected_values), Len(actual_values)) :
     expected_values[i] = actual_values[i]

\* for expected, actual in zip(expected_values, actual_values): mismatch -> False
ZipAllEqual(expected_values, actual_values) ==
  \A i \in 1..Min(Len(expected_values), Len(actual_values)) :
     expected_values[i] = actual_values[i]

ActualValues(ln) ==
  LET columns == split(ln, COMMA)
  IN  [i \in 1..Len(columns) |-> strip(columns[i], {QUOTE})]

is_valid_header(lang, ln) ==
  LET actual_values == ActualValues(ln)
      full == header_values_for(lang, TRUE)
      short == header_values_for(lang, FALSE)
  IN  IF Len(full) # Len(actual_values)
        THEN IF Len(short) # Len(actual_values)
               THEN FALSE
               ELSE ZipAllEqual(short, actual_values)
        ELSE ZipAllEqual(full, actual_values)

----------------------------------------------------------------------------
\* datetime.strptime(text, '%Y-%m-%d').date() and Decimal(text).

IsDigit(c) == c \in DIGIT0..DIGIT9

AllDigits(s) == \A i \in 1..Len(s) : IsDigit(s[i])

RECURSIVE ToNat(_)
ToNat(s) ==
  IF s = <<>> THEN 0 ELSE 10 * ToNat(SubSeq(s, 1, Len(s)-1)) + (s[Len(s)] - DIGIT0)

IsLeap(y) == (y % 4 = 0 /\ y % 100 # 0) \/ y % 400 = 0

DaysIn(y, m) ==
  IF m = 2 THEN (IF IsLeap(y) THEN 29 ELSE 28)
  ELSE IF m \in {4, 6, 9, 11} THEN 30 ELSE 31

\* %Y is four digits, %m and %d one or two digits naming a month and a day of
\* it; the whole text must be consumed.  A date is <<year, month, day>>; any
\* other text raises ValueError.
strptime_date(text) ==
  LET parts == split(text, HYPHEN)
  IN  IF /\ Len(parts) = 3
         /\ Len(parts[1]) = 4 /\ AllDigits(parts[1])
         /\ Len(parts[2]) \in 1..2 /\ AllDigits(parts[2])
         /\ Len(parts[3]) \in 1..2 /\ AllDigits(parts[3])
         /\ ToNat(parts[1]) >= 1
         /\ ToNat(parts[2]) \in 1..12
         /\ ToNat(parts[3]) \in 1..DaysIn(ToNat(parts[1]), ToNat(parts[2]))
        THEN [ok |-> TRUE, value |-> <<ToNat(parts[1]), ToNat(parts[2]), ToNat(parts[3])>>]
        ELSE [ok |-> FALSE, exc |-> "ValueError"]

\* date_tmp > date
DateAfter(a, b) ==
  \/ a[1] > b[1]
  \/ a[1] = b[1] /\ a[2] > b[2]
  \/ a[1] = b[1] /\ a[2] = b[2] /\ a[3] > b[3]

\* Decimal accepting a comma as the decimal separator.
DecimalLenient(text) ==
  LET unsigned == IF text # <<>> /\ Head(text) \in {PLUS, HYPHEN} THEN Tail(text) ELSE text
      dotted == [i \in 1..Len(unsigned) |-> IF unsigned[i] = COMMA THEN DOT ELSE unsigned[i]]
      parts == split(dotted, DOT)
      int == parts[1]
      frac == IF Len(parts) = 2 THEN parts[2] ELSE <<>>
  IN  IF /\ Len(parts) \in 1..2
         /\ AllDigits(int) /\ AllDigits(frac)
         /\ Len(int) + Len(frac) >= 1
        THEN [ok |-> TRUE,
              value |-> [sign |-> IF Head(text) = HYPHEN THEN 1 ELSE 0,
                         coefficient |-> ToNat(int \o frac),
                         exponent |-> 0 - Len(frac)]]
        ELSE [ok |-> FALSE, exc |-> "InvalidOperation"]

\* Decimal(text) for the plain notation [sign] digits [. digits]: the exact
\* value as (sign, coefficient, exponent), no rounding.  Text outside the
\* numeric grammar raises decimal.InvalidOperation.
Decimal(text) ==
  LET unsigned == IF text # <<>> /\ Head(text) \in {PLUS, HYPHEN} THEN Tail(text) ELSE text
      parts == split(unsigned, DOT)
      int == parts[1]
      frac == IF Len(parts) = 2 THEN parts[2] ELSE <<>>
  IN  IF /\ Len(parts) \in 1..2
         /\ AllDigits(int) /\ AllDigits(frac)
         /\ Len(int) + Len(frac) >= 1
        THEN [ok |-> TRUE,
              value |-> [sign |-> IF Head(text) = HYPHEN THEN 1 ELSE 0,
                         coefficient |-> ToNat(int \o frac),
                         exponent |-> 0 - Len(frac)]]
        ELSE [ok |-> FALSE, exc |-> "InvalidOperation"]

----------------------------------------------------------------------------
\* re.compile(pattern, flags=re.IGNORECASE).match(text), for patterns made of
\* an optional leading '^' and literal characters: match() anchors at position
\* 0 with or without the '^', and need not consume the whole text.

lower(c) == IF c \in UPPER_A..UPPER_Z THEN c + CASE_OFFSET ELSE c

regex_match(pattern, text) ==
  LET literal == IF pattern # <<>> /\ Head(pattern) = CARET THEN Tail(pattern) ELSE pattern
  IN  /\ Len(literal) <= Len(text)
      /\ \A i \in 1..Len(literal) : lower(literal[i]) = lower(text[i])

----------------------------------------------------------------------------
\* N26Importer.__init__

OWN_ACCOUNT == "Assets:N26"     \* the `account` argument
FILE_NAME == "n26.csv"          \* file_.name

\* account_patterns.items() is a sequence of [account, patterns] in insertion
\* order; the two nested for loops visit these (pattern, account) pairs.
RECURSIVE PatternPairs(_)
PatternPairs(items) ==
  IF items = <<>> THEN <<>>
  ELSE [i \in 1..Len(Head(items).patterns) |->
          [pattern |-> Head(items).patterns[i], account |-> Head(items).account]]
       \o PatternPairs(Tail(items))

PayeePattern(pattern, acc) == [regex |-> pattern, account |-> acc]

\* assert pattern not in seen_patterns
SeenBefore(pattern, seen_patterns) == pattern \in seen_patterns

\* The loop with the duplicate check made per (pattern, account) rule rather
\* than per pattern string.
RECURSIVE CompileLoopPerAccount(_, _, _)
CompileLoopPerAccount(pairs, seen_patterns, rules) ==
  IF pairs = <<>> THEN [ok |-> TRUE, rules |-> rules]
  ELSE IF PayeePattern(Head(pairs).pattern, Head(pairs).account) \in rules
         THEN [ok |-> FALSE, rules |-> rules]
         ELSE CompileLoopPerAccount(Tail(pairs),
                          seen_patterns \cup {Head(pairs).pattern},
                          rules \cup {PayeePattern(Head(pairs).pattern, Head(pairs).account)})

\* The loop body run over the pairs: stops at the first failing assert.
RECURSIVE CompileLoop(_, _, _)
CompileLoop(pairs, seen_patterns, rules) ==
  IF pairs = <<>> THEN [ok |-> TRUE, rules |-> rules]
  ELSE IF SeenBefore(Head(pairs).pattern, seen_patterns)
         THEN [ok |-> FALSE, rules |-> rules]
         ELSE CompileLoop(Tail(pairs),
                          seen_patterns \cup {Head(pairs).pattern},
                          rules \cup {PayeePattern(Head(pairs).pattern, Head(pairs).account)})

\* The orders in which a process may iterate a set: the hash of a rule rests on
\* string hashes, which are seeded per process.
IterationOrders(S) ==
  {o \in [1..Cardinality(S) -> S] : \A i, j \in 1..Cardinality(S) : i # j => o[i] # o[j]}

Returned(v) == [kind |-> "return", value |-> v]
Raised(e) == [kind |-> "raise", exc |-> e]
NoResult == [kind |-> "none"]

\* None where a date, an amount or a file may stand.
NoDate == <<>>
NoUnits == <<>>
NoFile == [kind |-> "none", first_line |-> <<>>, rows |-> <<>>]

ResetCall ==
  /\ op' = "none" /\ pc' = "idle" /\ file' = NoFile /\ line' = <<>>
  /\ open_fds' = 0 /\ n_opened' = 0 /\ exc' = "none" /\ identified' = FALSE
  /\ pos' = 0 /\ date' = NoDate /\ entries' = <<>>

Construct(lang, account_patterns) ==
  /\ constructed = "no"
  /\ ctor_args' = [language |-> lang, account_patterns |-> account_patterns]
  /\ language' = lang
  /\ ResetCall
  /\ IF ~is_language_supported(lang)
       THEN /\ constructed' = "failed"
            /\ payee_patterns' = {}
            /\ iter_order' = <<>>
            /\ result' = Raised("InvalidFormatError")
       ELSE LET done == CompileLoop(PatternPairs(account_patterns), {}, {})
            IN  /\ payee_patterns' = done.rules
                /\ IF done.ok
                     THEN /\ constructed' = "ok"
                          /\ iter_order' \in IterationOrders(done.rules)
                          /\ result' = Returned(None)
                     ELSE /\ constructed' = "failed"
                          /\ iter_order' = <<>>
                          /\ result' = Raised("AssertionError")

----------------------------------------------------------------------------
\* Files.  A file is what open(file_.name) finds: nothing ("missing"), a file
\* the process may not read ("denied"), bytes that do not decode in
\* file_encoding ("undecodable"), or text ("ok"): its raw first line and the
\* data rows as the csv reader splits them into fields.

MaxRows == 2

RECURSIVE join(_, _)
join(tokens, sep) ==
  IF tokens = <<>> THEN <<>>
  ELSE IF Len(tokens) = 1 THEN Head(tokens)
  ELSE Head(tokens) \o <<sep>> \o join(Tail(tokens), sep)

Quoted(tokens) == [i \in 1..Len(tokens) |-> <<QUOTE>> \o tokens[i] \o <<QUOTE>>]

\* The labels of a language straight from the table, all of them or the
\* non-optional ones.
Labels(lang, include_optional) ==
  LET wanted(f) == include_optional \/ ~f.optional
      fields == SelectSeq(HEADER_FIELDS[lang], wanted)
  IN  [i \in 1..Len(fields) |-> fields[i].label]

\* The header line an export in language `lang` starts with.
HeaderLine(lang, include_optional, quoted) ==
  LET labels == Labels(lang, include_optional)
  IN  join(IF quoted THEN Quoted(labels) ELSE labels, COMMA)

TextAcmeCorp == <<65, 99, 109, 101, 32, 67, 111, 114, 112>>          \* 'Acme Corp'
TextReweMarkt == <<82, 69, 87, 69, 32, 77, 97, 114, 107, 116>>       \* 'REWE Markt'
TextInvoice == <<73, 110, 118, 111, 105, 99, 101, 32, 55>>           \* 'Invoice 7'
TextGarbage == <<102, 111, 111, 44, 98, 97, 114>>                    \* 'foo,bar'
PatCaretAcme == <<94, 65, 99, 109, 101>>                             \* '^Acme'
PatAcmeC == <<97, 99, 109, 101, 32, 99>>                             \* 'acme c'
PatCaretACME == <<94, 65, 67, 77, 69>>                               \* '^ACME'
PatRewe == <<114, 101, 119, 101, 32>>                                \* 'rewe '

\* What a data row says, whatever the column layout.
SampleRows ==
  { [date |-> <<50, 48, 50, 49, 45, 48, 51, 45, 48, 53>>,            \* '2021-03-05'
     payee |-> TextAcmeCorp, reference |-> TextInvoice,
     amount |-> <<49, 50, 46, 51, 52>>],                             \* '12.34'
    [date |-> <<50, 48, 50, 49, 45, 48, 51, 45, 48, 55>>,            \* '2021-03-07'
     payee |-> TextReweMarkt, reference |-> <<>>,
     amount |-> <<45, 53, 46, 48, 48>>],                             \* '-5.00'
    [date |-> <<48, 53, 46, 48, 51, 46, 50, 48, 50, 49>>,            \* '05.03.2021'
     payee |-> TextReweMarkt, reference |-> TextInvoice,
     amount |-> <<49, 50, 46, 51, 52>>],                             \* '12.34'
    [date |-> <<50, 48, 50, 49, 45, 48, 51, 45, 48, 54>>,            \* '2021-03-06'
     payee |-> TextAcmeCorp, reference |-> <<>>,
     amount |-> <<49, 50, 44, 51, 52>>] }                            \* '12,34'

\* The fields of a row in the column order of the schema, with or without the
\* optional column.
RowFields(r, with_category) ==
  <<r.date, r.payee, <<>>, <<>>, r.reference>>
  \o (IF with_category THEN << <<>> >> ELSE <<>>)
  \o <<r.amount, <<>>, <<>>, <<>>>>

RowSeqs == UNION {[1..n -> SampleRows] : n \in 0..MaxRows}

TextFile(first, rs, with_category) ==
  [kind |-> "ok",
   first_line |-> first \o <<10>>,
   rows |-> [i \in 1..Len(rs) |-> RowFields(rs[i], with_category)]]

EmptyFile == [kind |-> "ok", first_line |-> <<>>, rows |-> <<>>]

Files ==
  { [kind |-> k, first_line |-> <<>>, rows |-> <<>>] : k \in {"missing", "denied", "undecodable"} }
  \cup {EmptyFile}
  \cup { TextFile(HeaderLine(l, TRUE, FALSE), rs, TRUE) : l \in Languages, rs \in RowSeqs }
  \cup { TextFile(HeaderLine(l, FALSE, TRUE), rs, FALSE) : l \in Languages, rs \in RowSeqs }
  \cup { TextFile(TextGarbage, rs, TRUE) : rs \in RowSeqs }

\* The account_patterns arguments tried.
SHOP == "Expenses:Shop"
FOOD == "Expenses:Food"

SamplePatterns ==
  { <<>>,
    << [account |-> SHOP, patterns |-> <<PatCaretAcme>>],
       [account |-> FOOD, patterns |-> <<PatRewe>>] >>,
    << [account |-> SHOP, patterns |-> <<PatCaretAcme>>],
       [account |-> FOOD, patterns |-> <<PatAcmeC>>] >>,
    << [account |-> SHOP, patterns |-> <<PatCaretACME>>],
       [account |-> FOOD, patterns |-> <<PatCaretACME>>] >>,
    << [account |-> FOOD, patterns |-> <<PatRewe, PatAcmeC, PatRewe>>] >> }

LanguageArgs == Languages \cup {"es"}

----------------------------------------------------------------------------
\* identify, the first step of all three operations.

StartCall(o, f) ==
  /\ constructed = "ok"
  /\ pc = "idle"
  /\ op' = o /\ file' = f /\ pc' = "id_open"
  /\ line' = <<>> /\ open_fds' = 0 /\ n_opened' = 0 /\ exc' = "none"
  /\ identified' = FALSE /\ pos' = 0 /\ date' = NoDate /\ entries' = <<>>
  /\ result' = NoResult
  /\ UNCHANGED importer_vars

CallIdentify(f) == StartCall("identify", f)

CallFileDate(f) == StartCall("file_date", f)

CallExtract(f) == StartCall("extract", f)

\* open(file_.name, encoding=...): raises OSError for a file that is not there
\* or may not be read.
OpenError(f) ==
  CASE f.kind = "missing" -> "FileNotFoundError"
    [] f.kind = "denied" -> "PermissionError"
    [] OTHER -> "none"

IdentifyOpen ==
  /\ pc = "id_open"
  /\ IF OpenError(file) # "none"
       THEN /\ exc' = OpenError(file)
            /\ pc' = "id_except"
            /\ UNCHANGED <<open_fds, n_opened>>
       ELSE /\ open_fds' = open_fds + 1
            /\ n_opened' = n_opened + 1
            /\ pc' = "id_readline"
            /\ exc' = exc
  /\ UNCHANGED <<importer_vars, op, file, line, identified, pos, date, entries, result>>

\* line = fd.readline().strip(): decoding the bytes may raise UnicodeDecodeError.
IdentifyReadline ==
  /\ pc = "id_readline"
  /\ IF file.kind = "undecodable"
       THEN exc' = "UnicodeDecodeError" /\ line' = line
       ELSE line' = strip(file.first_line, Whitespace) /\ exc' = exc
  /\ pc' = "id_exit"
  /\ UNCHANGED <<importer_vars, op, file, open_fds, n_opened, identified, pos, date, entries, result>>

\* Leaving the with block closes the stream, exception or not.
IdentifyExit ==
  /\ pc = "id_exit"
  /\ open_fds' = open_fds - 1
  /\ pc' = IF exc # "none" THEN "id_except" ELSE "id_else"
  /\ UNCHANGED <<importer_vars, op, file, line, n_opened, exc, identified, pos, date, entries, result>>

\* The exceptions `except ValueError` catches: UnicodeDecodeError is a ValueError,
\* OSError and its subclasses are not.
CaughtByIdentify(e) == e \in {"ValueError", "UnicodeDecodeError"}

IdentifyExcept ==
  /\ pc = "id_except"
  /\ CaughtByIdentify(exc)
  /\ identified' = FALSE
  /\ exc' = "none"
  /\ pc' = "id_return"
  /\ UNCHANGED <<importer_vars, op, file, line, open_fds, n_opened, pos, date, entries, result>>

\* An exception identify does not catch leaves identify and its caller, which
\* has no handler either.
IdentifyPropagate ==
  /\ pc = "id_except"
  /\ ~CaughtByIdentify(exc)
  /\ result' = Raised(exc)
  /\ pc' = "done"
  /\ UNCHANGED <<importer_vars, op, file, line, open_fds, n_opened, exc, identified, pos, date, entries>>

IdentifyElse ==
  /\ pc = "id_else"
  /\ identified' = is_valid_header(language, line)
  /\ pc' = "id_return"
  /\ UNCHANGED <<importer_vars, op, file, line, open_fds, n_opened, exc, pos, date, entries, result>>

IdentifyReturn ==
  /\ pc = "id_return"
  /\ op = "identify"
  /\ result' = Returned(identified)
  /\ pc' = "done"
  /\ UNCHANGED <<importer_vars, op, file, line, open_fds, n_opened, exc, identified, pos, date, entries>>

----------------------------------------------------------------------------
\* csv.DictReader: the first line gives the field names, every further row is
\* a mapping from field name to the field at the same position.

\* The field names of a header line whose quotes, if any, enclose whole
\* fields: the fields without their quotes.
Fieldnames(f) == ActualValues(rstrip(f.first_line, Newline))

LastIndexOf(names, label) ==
  CHOOSE i \in 1..Len(names) :
     names[i] = label /\ \A j \in (i+1)..Len(names) : names[j] # label

\* line[label], for a label among the field names and a row of as many fields.
Field(f, index, label) == f.rows[index][LastIndexOf(Fieldnames(f), label)]

\* self._parse_date(line)
parse_date(lang, f, index) == strptime_date(Field(f, index, translate(lang, "date")))

----------------------------------------------------------------------------
\* file_date

FileDateAfterIdentify ==
  /\ pc = "id_return"
  /\ op = "file_date"
  /\ IF ~identified
       THEN result' = Returned(NoDate) /\ pc' = "done"
       ELSE result' = result /\ pc' = "open"
  /\ UNCHANGED <<importer_vars, op, file, line, open_fds, n_opened, exc, identified, pos, date, entries>>

\* The second open of the call, around the loop over the rows.
OpenForRows ==
  /\ pc = "open"
  /\ open_fds' = open_fds + 1
  /\ n_opened' = n_opened + 1
  /\ pc' = "rows"
  /\ UNCHANGED <<importer_vars, op, file, line, exc, identified, pos, date, entries, result>>

FileDateRow ==
  /\ pc = "rows"
  /\ op = "file_date"
  /\ pos < Len(file.rows)
  /\ LET date_tmp == parse_date(language, file, pos + 1)
     IN  IF ~date_tmp.ok
           THEN /\ exc' = date_tmp.exc
                /\ pc' = "exit"
                /\ UNCHANGED <<pos, date>>
           ELSE /\ date' = IF date = NoDate \/ DateAfter(date_tmp.value, date)
                             THEN date_tmp.value ELSE date
                /\ pos' = pos + 1
                /\ UNCHANGED <<exc, pc>>
  /\ UNCHANGED <<importer_vars, op, file, line, open_fds, n_opened, identified, entries, result>>

\* The reader is exhausted: the for loop ends.
RowsEnd ==
  /\ pc = "rows"
  /\ pos = Len(file.rows)
  /\ pc' = "exit"
  /\ UNCHANGED <<importer_vars, op, file, line, open_fds, n_opened, exc, identified, pos, date, entries, result>>

\* The stream closed on the normal path only.
WithExitLeaky ==
  /\ pc = "exit"
  /\ open_fds' = IF exc # "none" THEN open_fds ELSE open_fds - 1
  /\ pc' = IF exc # "none" THEN "raise" ELSE "return"
  /\ UNCHANGED <<importer_vars, op, file, line, n_opened, exc, identified, pos, date, entries, result>>

\* Leaving the with block closes the stream, exception or not.
WithExit ==
  /\ pc = "exit"
  /\ open_fds' = open_fds - 1
  /\ pc' = IF exc # "none" THEN "raise" ELSE "return"
  /\ UNCHANGED <<importer_vars, op, file, line, n_opened, exc, identified, pos, date, entries, result>>

FileDateReturn ==
  /\ pc = "return"
  /\ op = "file_date"
  /\ result' = Returned(date)
  /\ pc' = "done"
  /\ UNCHANGED <<importer_vars, op, file, line, open_fds, n_opened, exc, identified, pos, date, entries>>

\* A row-level exception leaves the method: nothing is returned.
Propagate ==
  /\ pc = "raise"
  /\ result' = Raised(exc)
  /\ pc' = "done"
  /\ UNCHANGED <<importer_vars, op, file, line, open_fds, n_opened, exc, identified, pos, date, entries>>

----------------------------------------------------------------------------
\* extract

\* extract going on to the rows whatever identify answered.
ExtractIgnoringIdentify ==
  /\ pc = "id_return"
  /\ op = "extract"
  /\ pc' = "open"
  /\ UNCHANGED <<importer_vars, op, file, line, open_fds, n_opened, exc, identified, pos, date, entries, result>>

ExtractAfterIdentify ==
  /\ pc = "id_return"
  /\ op = "extract"
  /\ IF ~identified
       THEN result' = Returned(<<>>) /\ pc' = "done"
       ELSE result' = result /\ pc' = "open"
  /\ UNCHANGED <<importer_vars, op, file, line, open_fds, n_opened, exc, identified, pos, date, entries>>

\* The loop with an else branch that forgets an earlier match.
RECURSIVE MatchLoopForgetting(_, _, _)
MatchLoopForgetting(order, payee, match) ==
  IF order = <<>> THEN match
  ELSE MatchLoopForgetting(Tail(order), payee,
                 IF regex_match(Head(order).regex, payee) THEN Head(order).account ELSE None)

\* match = None; for pattern in self.payee_patterns: if pattern.regex.match(payee):
\* match = pattern.account
RECURSIVE MatchLoop(_, _, _)
MatchLoop(order, payee, match) ==
  IF order = <<>> THEN match
  ELSE MatchLoop(Tail(order), payee,
                 IF regex_match(Head(order).regex, payee) THEN Head(order).account ELSE match)

\* if match:
Truthy(match) == match # None /\ match # ""

Posting(acc, units) == [account |-> acc, units |-> units]

Amount(number, currency) == [number |-> number, currency |-> currency]

Postings(amount, match) ==
  <<Posting(OWN_ACCOUNT, <<Amount(amount, "EUR")>>)>>
  \o (IF Truthy(match) THEN <<Posting(match, NoUnits)>> ELSE <<>>)

\* Metadata counting the rows from one.
new_metadata_from_one(filename, index) == [filename |-> filename, lineno |-> index + 1]

\* data.new_metadata(file_.name, index)
new_metadata(filename, index) == [filename |-> filename, lineno |-> index]

Transaction(meta, d, payee, narration, postings) ==
  [meta |-> meta, date |-> d, flag |-> "*", payee |-> payee,
   narration |-> narration, postings |-> postings]

\* The body of the for loop for the row at 0-based `index`.
ExtractRow ==
  /\ pc = "rows"
  /\ op = "extract"
  /\ pos < Len(file.rows)
  /\ LET index == pos
         amount == Decimal(Field(file, index + 1, translate(language, "amount_eur")))
         payee == Field(file, index + 1, translate(language, "payee"))
         reference == Field(file, index + 1, translate(language, "payment_reference"))
         match == MatchLoop(iter_order, payee, None)
         d == parse_date(language, file, index + 1)
     IN  IF ~amount.ok
           THEN /\ exc' = amount.exc
                /\ pc' = "exit"
                /\ UNCHANGED <<pos, entries>>
           ELSE IF ~d.ok
             THEN /\ exc' = d.exc
                  /\ pc' = "exit"
                  /\ UNCHANGED <<pos, entries>>
             ELSE /\ entries' = Append(entries,
                                   Transaction(new_metadata(FILE_NAME, index), d.value,
                                               payee, reference,
                                               Postings(amount.value, match)))
                  /\ pos' = pos + 1
                  /\ UNCHANGED <<exc, pc>>
  /\ UNCHANGED <<importer_vars, op, file, line, open_fds, n_opened, identified, date, result>>

ExtractReturn ==
  /\ pc = "return"
  /\ op = "extract"
  /\ result' = Returned(entries)
  /\ pc' = "done"
  /\ UNCHANGED <<importer_vars, op, file, line, open_fds, n_opened, exc, identified, pos, date, entries>>

\* The call is over: its caller has the result, and the importer is between
\* operations again.
Finish ==
  /\ pc = "done"
  /\ constructed = "ok"
  /\ ResetCall
  /\ result' = NoResult
  /\ UNCHANGED importer_vars

----------------------------------------------------------------------------
\* The importer: constructed once, then called on files any number of times.

Init ==
  /\ constructed = "no"
  /\ ctor_args = [language |-> "", account_patterns |-> <<>>]
  /\ language = ""
  /\ payee_patterns = {}
  /\ iter_order = <<>>
  /\ op = "none" /\ pc = "idle" /\ file = NoFile /\ line = <<>>
  /\ open_fds = 0 /\ n_opened = 0 /\ exc = "none" /\ identified = FALSE
  /\ pos = 0 /\ date = NoDate /\ entries = <<>>
  /\ result = NoResult

Next ==
  \/ \E lang \in LanguageArgs, ap \in SamplePatterns : Construct(lang, ap)
  \/ \E f \in Files : CallIdentify(f)
  \/ \E f \in Files : CallFileDate(f)
  \/ \E f \in Files : CallExtract(f)
  \/ IdentifyOpen
  \/ IdentifyReadline
  \/ IdentifyExit
  \/ IdentifyExcept
  \/ IdentifyPropagate
  \/ IdentifyElse
  \/ IdentifyReturn
  \/ FileDateAfterIdentify
  \/ OpenForRows
  \/ FileDateRow
  \/ RowsEnd
  \/ WithExit
  \/ FileDateReturn
  \/ Propagate
  \/ ExtractAfterIdentify
  \/ ExtractRow
  \/ ExtractReturn
  \/ Finish

Spec == Init /\ [][Next]_vars

----------------------------------------------------------------------------
\* The header matcher on its own: is_valid_header called on a line.

\* A header line as exported, or one edit away from it: a character replaced,
\* a quote or a comma inserted, a character deleted.
Edited(s, kind, i) ==
  CASE kind = "keep" -> s
    [] kind = "replace" -> [s EXCEPT ![i] = 88]        \* 'X'
    [] kind = "quote" -> SubSeq(s, 1, i-1) \o <<QUOTE>> \o SubSeq(s, i, Len(s))
    [] kind = "comma" -> SubSeq(s, 1, i-1) \o <<COMMA>> \o SubSeq(s, i, Len(s))
    [] kind = "delete" -> SubSeq(s, 1, i-1) \o SubSeq(s, i+1, Len(s))

ExportedHeaders ==
  { HeaderLine(l, inc, q) : l \in Languages, inc \in BOOLEAN, q \in BOOLEAN }

HeaderInputs ==
  UNION { { Edited(s, kind, i) : kind \in {"keep", "replace", "quote", "comma", "delete"},
                                 i \in 1..Len(s) } : s \in ExportedHeaders }

InitHeader ==
  /\ constructed = "ok"
  /\ language \in Languages
  /\ ctor_args = [language |-> language, account_patterns |-> <<>>]
  /\ payee_patterns = {}
  /\ iter_order = <<>>
  /\ op = "is_valid_header" /\ pc = "call" /\ file = NoFile
  /\ line \in HeaderInputs
  /\ open_fds = 0 /\ n_opened = 0 /\ exc = "none" /\ identified = FALSE
  /\ pos = 0 /\ date = NoDate /\ entries = <<>>
  /\ result = NoResult

IsValidHeaderCall ==
  /\ pc = "call"
  /\ op = "is_valid_header"
  /\ result' = Returned(is_valid_header(language, line))
  /\ pc' = "done"
  /\ UNCHANGED <<importer_vars, op, file, line, open_fds, n_opened, exc, identified, pos, date, entries>>

NextHeader == IsValidHeaderCall

SpecHeader == InitHeader /\ [][NextHeader]_vars

----------------------------------------------------------------------------
\* Properties of the header matcher, checked under SpecHeader.

HeaderCallDone == op = "is_valid_header" /\ pc = "done"

\* C1: for every supported language, is_valid_header accepts the comma-joined
\* label list of that language, with quoted or unquoted tokens, and the same
\* line without the optional 'category' label.
C1_OwnHeaderAccepted ==
  (HeaderCallDone /\ \E inc \in BOOLEAN, q \in BOOLEAN : line = HeaderLine(language, inc, q))
    => result.value = TRUE

C1_Witness ==
  /\ HeaderCallDone
  /\ language = "fr"
  /\ line = HeaderLine("fr", FALSE, TRUE)
  /\ Len(split(line, COMMA)) = 9
  /\ result.value = TRUE

\* C2: is_valid_header rejects every line whose number of tokens is neither
\* the full nor the optional-omitted label count, every line of a matching
\* count with a token (quotes stripped) that differs from the label at its
\* position, and the header line of every other supported language.
C2_OtherLinesRejected ==
  HeaderCallDone =>
    LET tokens == ActualValues(line)
        full == Labels(language, TRUE)
        short == Labels(language, FALSE)
    IN  /\ (Len(tokens) # Len(full) /\ Len(tokens) # Len(short)) => result.value = FALSE
        /\ (Len(tokens) = Len(full) /\ \E i \in 1..Len(full) : tokens[i] # full[i])
             => result.value = FALSE
        /\ (Len(tokens) = Len(short) /\ \E i \in 1..Len(short) : tokens[i] # short[i])
             => result.value = FALSE
        /\ \A m \in Languages \ {language}, inc \in BOOLEAN, q \in BOOLEAN :
             line = HeaderLine(m, inc, q) => result.value = FALSE

C2_Witness ==
  /\ HeaderCallDone
  /\ language = "en"
  /\ line = HeaderLine("fr", TRUE, FALSE)
  /\ ActualValues(line)[1] = Labels("en", TRUE)[1]
  /\ result.value = FALSE

----------------------------------------------------------------------------
\* Properties of the importer, checked under Spec.

CallDone(o) == op = o /\ pc = "done"

\* The file opens and decodes, and its first line is a valid header.
Recognised(f) ==
  f.kind = "ok" /\ is_valid_header(language, strip(f.first_line, Whitespace))

\* The file opens, but is not this importer's: its bytes do not decode, or
\* its first line is not a valid header.
NotRecognised(f) ==
  \/ f.kind = "undecodable"
  \/ f.kind = "ok" /\ ~is_valid_header(language, strip(f.first_line, Whitespace))

\* The texts of a row by column position: the date comes first, the payee
\* second, the payment reference fifth, the EUR amount fourth from the end.
RowDate(row) == row[1]
RowPayee(row) == row[2]
RowReference(row) == row[5]
RowAmount(row) == row[Len(row) - 3]

BadDateText == <<48, 53, 46, 48, 51, 46, 50, 48, 50, 49>>     \* '05.03.2021'
BadAmountText == <<49, 50, 44, 51, 52>>                       \* '12,34'

Malformed(row) == RowDate(row) = BadDateText \/ RowAmount(row) = BadAmountText

\* C3: identify returns false, and raises nothing, for a file that is missing,
\* may not be read or does not decode.
C3_IdentifyNeverRaises ==
  (CallDone("identify") /\ file.kind \in {"missing", "denied", "undecodable"})
    => (result.kind = "return" /\ result.value = FALSE)

\* C4: for a file whose first line is not a valid header, no stream but
\* identify's is opened and no row is parsed, and the call ends by returning
\* False (identify), None (file_date) or the empty list (extract).
C4_RecognitionFailureIsNegative ==
  (op \in {"identify", "file_date", "extract"} /\ NotRecognised(file)) =>
    /\ pos = 0 /\ entries = <<>> /\ date = NoDate
    /\ pc \notin {"open", "rows", "exit", "return", "raise"}
    /\ pc = "done" =>
         /\ result.kind = "return"
         /\ n_opened = 1
         /\ op = "identify" => result.value = FALSE
         /\ op = "file_date" => result.value = NoDate
         /\ op = "extract" => result.value = <<>>

C4_Witness ==
  /\ CallDone("extract")
  /\ file.kind = "ok"
  /\ ~is_valid_header(language, strip(file.first_line, Whitespace))
  /\ \E i \in 1..Len(file.rows) : Malformed(file.rows[i])
  /\ result.kind = "return"
  /\ result.value = <<>>

\* C5: for a file with a valid header and N well-formed rows, extract returns
\* N records in file order: the k-th carries the date, payee and payment
\* reference of the k-th row and the 0-based row index in its metadata.
C5_OneRecordPerRowInOrder ==
  (CallDone("extract") /\ Recognised(file)
     /\ \A i \in 1..Len(file.rows) : ~Malformed(file.rows[i])) =>
    /\ result.kind = "return"
    /\ Len(result.value) = Len(file.rows)
    /\ \A k \in 1..Len(file.rows) :
         /\ result.value[k].date = strptime_date(RowDate(file.rows[k])).value
         /\ result.value[k].payee = RowPayee(file.rows[k])
         /\ result.value[k].narration = RowReference(file.rows[k])
         /\ result.value[k].meta.lineno = k - 1

C5_Witness ==
  /\ CallDone("extract")
  /\ Recognised(file)
  /\ Len(file.rows) = 2
  /\ RowDate(file.rows[1]) # RowDate(file.rows[2])
  /\ result.kind = "return"
  /\ Len(result.value) = 2
  /\ result.value[1].date # result.value[2].date
  /\ result.value[2].meta.lineno = 1

\* C6: every record extract builds has one or two postings; the first is on
\* the importer's own account with the row's amount in EUR; a second one,
\* without amount and on the account of a matching rule, is there exactly
\* when some payee rule matches a prefix of the row's payee.
C6_PostingsShape ==
  op = "extract" =>
    \A k \in 1..Len(entries) :
      LET e == entries[k]
          row == file.rows[k]
          matching == {r \in payee_patterns : regex_match(r.regex, RowPayee(row))}
      IN  /\ Len(e.postings) \in 1..2
          /\ e.postings[1].account = OWN_ACCOUNT
          /\ e.postings[1].units = <<[number |-> Decimal(RowAmount(row)).value, currency |-> "EUR"]>>
          /\ matching = {} => Len(e.postings) = 1
          /\ matching # {} =>
               /\ Len(e.postings) = 2
               /\ e.postings[2].units = NoUnits
               /\ \E r \in matching : e.postings[2].account = r.account

C6_Witness ==
  /\ CallDone("extract")
  /\ result.kind = "return"
  /\ Len(result.value) = 2
  /\ Len(result.value[1].postings) = 2
  /\ result.value[1].postings[2].account = SHOP
  /\ Cardinality({r \in payee_patterns : regex_match(r.regex, result.value[1].payee)}) = 2
  /\ {r \in payee_patterns : regex_match(r.regex, result.value[2].payee)} = {}
  /\ Len(result.value[2].postings) = 1

\* C7: in a file with a valid header, a row with an unparsable date or EUR
\* amount makes extract raise, wherever the row stands: no list is returned.
C7_MalformedRowRaises ==
  (op = "extract" /\ Recognised(file)
     /\ \E i \in 1..Len(file.rows) : Malformed(file.rows[i])) =>
    /\ pc # "return"
    /\ pc = "done" => (result.kind = "raise" /\ result.exc \in {"ValueError", "InvalidOperation"})

C7_Witness ==
  /\ CallDone("extract")
  /\ Recognised(file)
  /\ Len(file.rows) = 2
  /\ ~Malformed(file.rows[1])
  /\ RowAmount(file.rows[2]) = BadAmountText
  /\ Len(entries) = 1
  /\ result = Raised("InvalidOperation")

\* The pattern strings of an account_patterns argument, in order.
PatternStrings(account_patterns) ==
  LET pairs == PatternPairs(account_patterns)
  IN  [i \in 1..Len(pairs) |-> pairs[i].pattern]

HasDuplicate(s) == \E i, j \in 1..Len(s) : i # j /\ s[i] = s[j]

\* C8: construction fails when a pattern string occurs twice in
\* account_patterns, also under two accounts, and a failed construction gives
\* no importer to call; with distinct pattern strings (and a supported
\* language) it succeeds with exactly one payee rule per pattern string.
C8_DuplicatePatternRejected ==
  constructed # "no" =>
    LET pairs == PatternPairs(ctor_args.account_patterns)
        strings == PatternStrings(ctor_args.account_patterns)
    IN  /\ HasDuplicate(strings) => (constructed = "failed" /\ result.kind = "raise")
        /\ constructed = "failed" => (op = "none" /\ pc = "idle")
        /\ (~HasDuplicate(strings) /\ ctor_args.language \in Languages) =>
             /\ constructed = "ok"
             /\ Cardinality(payee_patterns) = Len(strings)
             /\ \A i \in 1..Len(pairs) :
                  {r \in payee_patterns : r.regex = pairs[i].pattern}
                    = {[regex |-> pairs[i].pattern, account |-> pairs[i].account]}

C8_Witness ==
  /\ constructed = "failed"
  /\ ctor_args.language = "en"
  /\ Len(ctor_args.account_patterns) = 2
  /\ ctor_args.account_patterns[1].account # ctor_args.account_patterns[2].account
  /\ ctor_args.account_patterns[1].patterns = ctor_args.account_patterns[2].patterns
  /\ result = Raised("AssertionError")

\* C9: extract is a function of the file and the configuration: whatever
\* order another run iterates the payee rules in, it returns the same records,
\* counter-accounts included.
C9_ExtractIsDeterministic ==
  (CallDone("extract") /\ result.kind = "return") =>
    \A o \in IterationOrders(payee_patterns) :
      \A k \in 1..Len(result.value) :
        result.value[k].postings =
          Postings(result.value[k].postings[1].units[1].number,
                   MatchLoop(o, result.value[k].payee, None))

\* C10: at most one stream is open at any moment, and none is open between
\* operations or once an operation is about to return or to raise.
C10_StreamsClosed ==
  /\ open_fds \in 0..1
  /\ pc \in {"idle", "id_open", "id_except", "id_else", "id_return", "open",
             "return", "raise", "done"} => open_fds = 0

C10_Witness ==
  /\ CallDone("extract")
  /\ result.kind = "raise"
  /\ n_opened = 2
  /\ open_fds = 0

====
